---- MODULE Spec2Model ----
(***************************************************************************)
(* Model of tools/statement-parser/parse_statement.py: the privacy-first   *)
(* bank statement parser.  A run reads the rows of one CSV file, resolves  *)
(* a category for each transaction (source-category remap, ordered rules,  *)
(* optional classifier), then builds the anonymized report.                *)
(*                                                                         *)
(* Text is modelled by TLA+ strings, which are sequences of characters:    *)
(* Len, SubSeq and \o act on them as Python's len, slicing and +.          *)
(* Amounts are counted in hundredths (45.00 is 4500).                      *)
(***************************************************************************)
EXTENDS Integers, Sequences, FiniteSets, TLC

\* ------------------------------------------------------------ bounds ----
\* Rows of the statement file read in one run.
MaxRows == 2

\* ------------------------------------------------------ static tables ---
\* Known statement formats
FORMATS ==
    [ amex       |-> [ date_col |-> "Date", amount_col |-> "Amount",
                       description_col |-> "Description", date_format |-> "%d/%m/%Y",
                       cardholder_col |-> "Card Member" ],
      commbank   |-> [ date_col |-> "Date", amount_col |-> "Amount",
                       description_col |-> "Description", date_format |-> "%d/%m/%Y" ],
      pocketbook |-> [ date_col |-> "Transaction Date", debit_col |-> "Debit",
                       credit_col |-> "Credit", description_col |-> "Details",
                       category_col |-> "Category", subcategory_col |-> "Subcategory",
                       date_format |-> "%d %b %Y" ] ]

VALID_CATEGORIES ==
    << "Groceries", "Coffee", "Dining Out", "Food Delivery", "Alcohol",
       "Treats", "Shopping", "Transport", "Fuel", "Utilities",
       "Subscriptions", "Health & Beauty", "Health", "Kids", "Insurance",
       "Entertainment", "Travel", "Education", "Gifts", "Home",
       "Pets", "Fitness", "Transfer", "Income", "Uncategorized" >>

CATEGORY_MAPPING ==
    <<"Food & Drink", "Coffee & Tea">> :> "Coffee"
    @@ <<"Food & Drink", "Groceries">> :> "Groceries"
    @@ <<"Food & Drink", "Restaurants">> :> "Dining Out"
    @@ <<"Food & Drink", "Fast Food">> :> "Dining Out"
    @@ <<"Food & Drink", "Bars & Pubs">> :> "Alcohol"
    @@ <<"Food & Drink", "Alcohol">> :> "Alcohol"
    @@ <<"Food & Drink", "Snacks">> :> "Treats"
    @@ <<"Food & Drink", "Tobacco">> :> "Treats"
    @@ <<"Food & Drink", "Other Food Expenses">> :> "Dining Out"
    @@ <<"Food & Drink", "">> :> "Dining Out"
    @@ <<"Transportation", "Public Transit">> :> "Transport"
    @@ <<"Transportation", "Fuel">> :> "Fuel"
    @@ <<"Transportation", "Parking">> :> "Transport"
    @@ <<"Transportation", "Parking & Tolls">> :> "Transport"
    @@ <<"Transportation", "Taxi & Rideshare">> :> "Transport"
    @@ <<"Transportation", "Auto Supplies">> :> "Transport"
    @@ <<"Transportation", "">> :> "Transport"
    @@ <<"Shopping", "Clothing">> :> "Shopping"
    @@ <<"Shopping", "Electronics">> :> "Shopping"
    @@ <<"Shopping", "General">> :> "Shopping"
    @@ <<"Shopping", "">> :> "Shopping"
    @@ <<"Bills & Utilities", "Phone">> :> "Utilities"
    @@ <<"Bills & Utilities", "Internet">> :> "Utilities"
    @@ <<"Bills & Utilities", "Electricity">> :> "Utilities"
    @@ <<"Bills & Utilities", "Gas">> :> "Utilities"
    @@ <<"Bills & Utilities", "">> :> "Utilities"
    @@ <<"Entertainment", "Streaming">> :> "Subscriptions"
    @@ <<"Entertainment", "Movies">> :> "Entertainment"
    @@ <<"Entertainment", "">> :> "Entertainment"
    @@ <<"Leisure", "Games">> :> "Entertainment"
    @@ <<"Leisure", "Books & News">> :> "Entertainment"
    @@ <<"Leisure", "Art">> :> "Entertainment"
    @@ <<"Leisure", "">> :> "Entertainment"
    @@ <<"Health & Fitness", "Pharmacy">> :> "Health"
    @@ <<"Health & Fitness", "Gym">> :> "Fitness"
    @@ <<"Health & Fitness", "">> :> "Health"
    @@ <<"Sports & Fitness", "Memberships">> :> "Fitness"
    @@ <<"Sports & Fitness", "">> :> "Fitness"
    @@ <<"Health & Medical", "Doctor">> :> "Health"
    @@ <<"Health & Medical", "">> :> "Health"
    @@ <<"Personal Care", "">> :> "Health & Beauty"
    @@ <<"Personal", "Beauty">> :> "Health & Beauty"
    @@ <<"Personal", "Clothing">> :> "Shopping"
    @@ <<"Personal", "Other Personal Expenses">> :> "Shopping"
    @@ <<"Personal", "">> :> "Shopping"
    @@ <<"Financial", "Transfers">> :> "Transfer"
    @@ <<"Financial", "Direct Debits">> :> "Utilities"
    @@ <<"Financial", "">> :> "Transfer"
    @@ <<"Education", "Tuition & Fees">> :> "Education"
    @@ <<"Education", "">> :> "Education"
    @@ <<"Travel", "Accommodation">> :> "Travel"
    @@ <<"Travel", "">> :> "Travel"
    @@ <<"Gifts & Donations", "">> :> "Gifts"
    @@ <<"Home", "Furnishings">> :> "Home"
    @@ <<"Home", "Other Home Expenses">> :> "Home"
    @@ <<"Home", "">> :> "Home"
    @@ <<"Insurance", "Financial Insurance">> :> "Insurance"
    @@ <<"Insurance", "">> :> "Insurance"
    @@ <<"Tax", "Personal Taxes">> :> "Utilities"
    @@ <<"Tax", "">> :> "Utilities"
    @@ <<"Services", "Government">> :> "Utilities"
    @@ <<"Services", "">> :> "Shopping"
    @@ <<"Business", "Services">> :> "Shopping"
    @@ <<"Business", "">> :> "Shopping"
    @@ <<"Kids", "">> :> "Kids"
    @@ <<"Pets", "">> :> "Pets"
    @@ <<"Income", "">> :> "Income"
    @@ <<"Transfer", "">> :> "Transfer"

\* The sentinel of an unresolved classification
Uncategorized == "Uncategorized"


\* ------------------------------------------------------- str methods ----
Min(a, b) == IF a < b THEN a ELSE b

Abs(n) == IF n < 0 THEN -n ELSE n

Char(s, i) == SubSeq(s, i, i)

UpperLetters == <<"A", "B", "C", "D", "E", "F", "G", "H", "I", "J", "K", "L", "M",
                  "N", "O", "P", "Q", "R", "S", "T", "U", "V", "W", "X", "Y", "Z">>

LowerLetters == <<"a", "b", "c", "d", "e", "f", "g", "h", "i", "j", "k", "l", "m",
                  "n", "o", "p", "q", "r", "s", "t", "u", "v", "w", "x", "y", "z">>

Digits == <<"0", "1", "2", "3", "4", "5", "6", "7", "8", "9">>

Whitespace == {" ", "\t", "\n", "\r"}

IndexIn(seq, c) == IF \E i \in 1..Len(seq) : seq[i] = c
                   THEN CHOOSE i \in 1..Len(seq) : seq[i] = c
                   ELSE 0

\* the lower-case letter of each upper-case letter, and the reverse
ToLower == [ c \in { UpperLetters[i] : i \in 1..26 } |-> LowerLetters[IndexIn(UpperLetters, c)] ]

ToUpper == [ c \in { LowerLetters[i] : i \in 1..26 } |-> UpperLetters[IndexIn(LowerLetters, c)] ]

RECURSIVE MapChars(_, _)
\* the string with every character c that f maps replaced by f[c]
MapChars(s, f) ==
    IF s = "" THEN ""
    ELSE (IF Head(s) \in DOMAIN f THEN f[Head(s)] ELSE Head(s)) \o MapChars(Tail(s), f)

\* The lower-case forms of the vocabulary words, computed once: every match against
\* the vocabulary lower-cases each of them again.
LowerVocabulary ==
    [ s \in { VALID_CATEGORIES[i] : i \in 1..Len(VALID_CATEGORIES) } |-> MapChars(s, ToLower) ]

\* str.lower()
lower(s) == IF s \in DOMAIN LowerVocabulary THEN LowerVocabulary[s] ELSE MapChars(s, ToLower)

\* str.upper()
upper(s) == MapChars(s, ToUpper)

\* needle in hay
Contains(hay, needle) ==
    \E i \in 0..(Len(hay) - Len(needle)) : SubSeq(hay, i + 1, i + Len(needle)) = needle

RECURSIVE lstrip(_, _)
\* str.lstrip(chars): drop the leading characters that are in chars
lstrip(s, chars) == IF s # "" /\ Head(s) \in chars THEN lstrip(Tail(s), chars) ELSE s

RECURSIVE rstrip(_, _)
rstrip(s, chars) ==
    IF s # "" /\ Char(s, Len(s)) \in chars THEN rstrip(SubSeq(s, 1, Len(s) - 1), chars) ELSE s

\* str.strip()
strip(s) == rstrip(lstrip(s, Whitespace), Whitespace)

RECURSIVE replace(_, _)
\* str.replace(c, ""): every occurrence of the character c removed
replace(s, c) ==
    IF s = "" THEN ""
    ELSE (IF Head(s) = c THEN "" ELSE Head(s)) \o replace(Tail(s), c)

isdigit(c) == IndexIn(Digits, c) > 0

AllDigits(s) == \A i \in 1..Len(s) : isdigit(Char(s, i))

RECURSIVE ToInt(_)
\* int() of a string of digits
ToInt(s) == IF s = "" THEN 0 ELSE 10 * ToInt(SubSeq(s, 1, Len(s) - 1)) + (IndexIn(Digits, Char(s, Len(s))) - 1)

RECURSIVE ToStr(_)
\* str() of a natural number
ToStr(n) == IF n < 10 THEN Digits[n + 1] ELSE ToStr(n \div 10) \o Digits[(n % 10) + 1]

RECURSIVE ZeroPad(_, _)
\* a number formatted to at least w digits (%02d, %04d)
ZeroPad(n, w) == IF Len(ToStr(n)) >= w THEN ToStr(n) ELSE "0" \o ZeroPad(n, w - 1)

\* s.split(sep): the pieces of s between the occurrences of the character sep
RECURSIVE split(_, _)
split(s, sep) ==
    IF \E i \in 1..Len(s) : Char(s, i) = sep
    THEN LET i == CHOOSE k \in 1..Len(s) : Char(s, k) = sep /\ \A j \in 1..(k - 1) : Char(s, j) # sep
         IN  <<SubSeq(s, 1, i - 1)>> \o split(SubSeq(s, i + 1, Len(s)), sep)
    ELSE <<s>>

\* s.split()[0]: the first whitespace-delimited token of a string that has one
FirstToken(s) ==
    LET t == lstrip(s, Whitespace)
        n == IF \E i \in 1..Len(t) : Char(t, i) \in Whitespace
             THEN (CHOOSE k \in 1..Len(t) : Char(t, k) \in Whitespace
                                            /\ \A j \in 1..(k - 1) : Char(t, j) \notin Whitespace) - 1
             ELSE Len(t)
    IN  SubSeq(t, 1, n)
\* ------------------------------------------------------ number parsing --
\* float(s) for plain decimal text: an optional sign, digits, at most one point and
\* at least one digit.  The value is in hundredths, from the first two decimals.
\* ok = FALSE is the ValueError.  (float() also reads exponents, inf, nan and
\* digit-group underscores; the amounts drawn below use none of them.)
float(s) ==
    LET signed == s # "" /\ Head(s) \in {"-", "+"}
        body   == IF signed THEN Tail(s) ELSE s
        parts  == split(body, ".")
        whole  == parts[1]
        frac   == IF Len(parts) = 2 THEN parts[2] ELSE ""
        ok     == /\ Len(parts) <= 2
                  /\ AllDigits(whole) /\ AllDigits(frac)
                  /\ Len(whole) + Len(frac) > 0
        cents  == ToInt(SubSeq(frac \o "00", 1, 2))
        mag    == 100 * ToInt(whole) + cents
    IN  [ ok |-> ok, value |-> IF ok THEN (IF signed /\ Head(s) = "-" THEN -mag ELSE mag) ELSE 0 ]

\* repr() of a float amount, as json.dumps and csv.writer print it: 4500 is "45.0"
repr(hundredths) ==
    LET whole == hundredths \div 100
        frac  == hundredths % 100
    IN  ToStr(whole) \o "." \o (IF frac % 10 = 0 THEN ToStr(frac \div 10) ELSE ZeroPad(frac, 2))

\* -------------------------------------------------------- date parsing --
MonthAbbr == <<"jan", "feb", "mar", "apr", "may", "jun",
               "jul", "aug", "sep", "oct", "nov", "dec">>

IsLeap(y) == (y % 4 = 0 /\ y % 100 # 0) \/ y % 400 = 0

DaysIn(m, y) == IF m = 2 THEN (IF IsLeap(y) THEN 29 ELSE 28)
                ELSE IF m \in {4, 6, 9, 11} THEN 30 ELSE 31

\* One field of strptime: %d and %m read one or two digits, %Y four, %b a month
\* abbreviation in any case.  0 is "no match".
Field(directive, text) ==
    IF directive = "b" THEN IndexIn(MonthAbbr, lower(text))
    ELSE IF directive = "Y"
         THEN (IF Len(text) = 4 /\ AllDigits(text) THEN ToInt(text) ELSE 0)
         ELSE (IF Len(text) \in {1, 2} /\ AllDigits(text) THEN ToInt(text) ELSE 0)

\* datetime.strptime(s, fmt) for the formats of this program, each three directives
\* with one separator character between them ("%d/%m/%Y").  ok = FALSE is the
\* ValueError.
strptime(s, fmt) ==
    LET sep    == Char(fmt, 3)
        order  == <<Char(fmt, 2), Char(fmt, 5), Char(fmt, 8)>>
        parts  == split(s, sep)
        val(x) == IF Len(parts) = 3 /\ \E i \in 1..3 : order[i] = x
                  THEN Field(x, parts[CHOOSE i \in 1..3 : order[i] = x])
                  ELSE 0
        d      == val("d")
        m      == IF "b" \in {order[i] : i \in 1..3} THEN val("b") ELSE val("m")
        y      == val("Y")
    IN  [ ok |-> Len(parts) = 3 /\ y >= 1 /\ m \in 1..12 /\ d >= 1 /\ d <= DaysIn(m, y),
          y |-> y, m |-> m, d |-> d ]

\* dt.strftime("%Y-%m-%d")
strftime(dt) == ZeroPad(dt.y, 4) \o "-" \o ZeroPad(dt.m, 2) \o "-" \o ZeroPad(dt.d, 2)

AltDateFormats == <<"%d/%m/%Y", "%Y-%m-%d", "%d-%m-%Y", "%m/%d/%Y">>

RECURSIVE TryAltFormats(_, _)
TryAltFormats(date_str, i) ==
    IF i > Len(AltDateFormats) THEN date_str
    ELSE IF strptime(strip(date_str), AltDateFormats[i]).ok
         THEN strftime(strptime(strip(date_str), AltDateFormats[i]))
         ELSE TryAltFormats(date_str, i + 1)

\* Parse date string and return YYYY-MM-DD format; the string itself when no
\* format reads it.
parse_date(date_str, fmt) ==
    IF strptime(strip(date_str), fmt).ok
    THEN strftime(strptime(strip(date_str), fmt))
    ELSE TryAltFormats(date_str, 1)

\* ------------------------------------------------------ categorization --
RECURSIVE FuzzyCategory(_, _, _)
\* the loop of map_external_category over the vocabulary, from entry i on
FuzzyCategory(category, valid, i) ==
    IF i > Len(valid) THEN Uncategorized
    ELSE IF Contains(lower(category), lower(valid[i])) \/ Contains(lower(valid[i]), lower(category))
         THEN valid[i]
         ELSE FuzzyCategory(category, valid, i + 1)

\* Map external category/subcategory to our categories; valid is the module's
\* VALID_CATEGORIES as it stands during the run.
map_external_category(category, subcategory, valid) ==
    IF <<category, subcategory>> \in DOMAIN CATEGORY_MAPPING
    THEN CATEGORY_MAPPING[<<category, subcategory>>]
    ELSE IF <<category, "">> \in DOMAIN CATEGORY_MAPPING
         THEN CATEGORY_MAPPING[<<category, "">>]
         ELSE FuzzyCategory(category, valid, 1)

RECURSIVE RuleScan(_, _, _, _)
\* the loop of categorize over the rules, from rule i on
RuleScan(desc_upper, rules, default, i) ==
    IF i > Len(rules) THEN default
    ELSE IF Contains(desc_upper, upper(rules[i].pattern))
         THEN rules[i].category
         ELSE RuleScan(desc_upper, rules, default, i + 1)

\* categorize, were the last matching rule to win
categorize_m(description, rules, default) ==
    LET hits == { i \in 1..Len(rules) : Contains(upper(description), upper(rules[i].pattern)) }
    IN  IF hits = {} THEN default
        ELSE rules[CHOOSE i \in hits : \A j \in hits : j <= i].category

\* Match description against rules and return category.
categorize(description, rules, default) == RuleScan(upper(description), rules, default, 1)

RECURSIVE CaseInsensitiveScan(_, _, _)
CaseInsensitiveScan(response, valid_categories, i) ==
    IF i > Len(valid_categories) THEN ""
    ELSE IF lower(valid_categories[i]) = lower(response)
         THEN valid_categories[i]
         ELSE CaseInsensitiveScan(response, valid_categories, i + 1)

RECURSIVE PartialScan(_, _, _)
PartialScan(response, valid_categories, i) ==
    IF i > Len(valid_categories) THEN Uncategorized
    ELSE IF \/ Contains(lower(response), lower(valid_categories[i]))
            \/ Contains(lower(valid_categories[i]), lower(response))
         THEN valid_categories[i]
         ELSE PartialScan(response, valid_categories, i + 1)

HasCaseInsensitive(response, valid_categories) ==
    \E i \in 1..Len(valid_categories) : lower(valid_categories[i]) = lower(response)

\* match_category, were the case-insensitive pass left out
match_category_m(response, valid_categories) ==
    LET r == strip(response)
    IN  IF \E i \in 1..Len(valid_categories) : valid_categories[i] = r
        THEN r
        ELSE PartialScan(r, valid_categories, 1)

\* Match LLM response to a valid category.
match_category(response, valid_categories) ==
    LET r == strip(response)
    IN  IF \E i \in 1..Len(valid_categories) : valid_categories[i] = r
        THEN r
        ELSE IF HasCaseInsensitive(r, valid_categories)
             THEN CaseInsensitiveScan(r, valid_categories, 1)
             ELSE PartialScan(r, valid_categories, 1)

\* detect_format, were the headers compared as they are written
detect_format_m(headers) ==
    LET headers_lower == { headers[i] : i \in 1..Len(headers) }
    IN  IF "card member" \in headers_lower THEN "amex"
        ELSE IF "transaction date" \in headers_lower /\ "debit" \in headers_lower THEN "pocketbook"
        ELSE IF "date" \in headers_lower /\ "amount" \in headers_lower THEN "commbank"
        ELSE ""

\* Auto-detect statement format from CSV headers; "" is None.
detect_format(headers) ==
    LET headers_lower == { lower(headers[i]) : i \in 1..Len(headers) }
    IN  IF "card member" \in headers_lower THEN "amex"
        ELSE IF "transaction date" \in headers_lower /\ "debit" \in headers_lower THEN "pocketbook"
        ELSE IF "date" \in headers_lower /\ "amount" \in headers_lower THEN "commbank"
        ELSE ""

\* ------------------------------------------------------------ inputs ----
\* reader.fieldnames of the statement files a run is given
CommbankHeaders == <<"Date", "Amount", "Description">>

PocketbookHeaders == <<"Transaction Date", "Debit", "Credit", "Details", "Category", "Subcategory">>

NoAmountHeaders == <<"Date", "Description">>

\* The file's header with the --format given for it: "" is no --format, and "visa"
\* is a name FORMATS does not have.
FileChoices ==
    { <<CommbankHeaders, "">>, <<PocketbookHeaders, "">>, <<NoAmountHeaders, "">>,
      <<NoAmountHeaders, "commbank">>, <<PocketbookHeaders, "commbank">>,
      <<CommbankHeaders, "visa">> }

\* The rows a file with these headers may hold, each the list of its fields.  A row
\* shorter than the header leaves its last columns without a value.
RowChoices(h) ==
    IF h = CommbankHeaders
    THEN { <<"01/02/2024", "45.00", "WOOLWORTHS METRO">>,
           <<"01/02/2024", "$1,200.50", "ACME">>,
           <<"2024-02-03", "-20", "Bobs Cafe">>,
           <<"n/a", "abc", "ACME">>,
           <<"05/02/2024">> }
    ELSE IF h = PocketbookHeaders
    THEN { <<"11 Dec 2025", "5.00", "", "Bobs Cafe", "Food & Drink", "Coffee & Tea">>,
           <<"11 Dec 2025", "", "100.00", "ACME", "Income", "">>,
           <<"12 Dec 2025", "12", "3", "AMAZON AU", "Shopping", "Clothing">>,
           <<"12 Dec 2025", "", "", "ACME", "Mystery", "">>,
           <<"13 Dec 2025", "-7", "", "ACME", "Mystery", "">>,
           <<"13 Dec 2025", "n/a", "", "ACME", "Mystery", "">> }
    ELSE { <<"01/02/2024", "ACME">>,
           <<"01/02/2024", "WOOLWORTHS METRO">> }

\* categories.json: the ordered rules and the default category
RuleChoices ==
    { <<>>,
      << [pattern |-> "woolworth", category |-> "Groceries"],
         [pattern |-> "METRO", category |-> "Transport"],
         [pattern |-> "amazon", category |-> "Books"],
         [pattern |-> "acme", category |-> "Transfer"] >> }

DefaultChoices == {"Uncategorized", "Shopping"}

\* what --fetch-categories brought back; <<>> is no fetch or an empty answer
ServerChoices == { <<>>, <<"Food", "Coffee", "Transfer">> }

\* what the classifier may print for one merchant
Responses == {"2. transfer", "I'm not sure", ""}

\* -------------------------------------------------------------- state ---
VARIABLES
    headers,                    \* reader.fieldnames
    format_name,                \* parse_csv's format_name
    rules,                      \* categories_config["rules"]
    default_category,           \* categories_config["default_category"]
    use_llm,                    \* --llm
    exclude_transfers,          \* --exclude-transfers
    server_categories,          \* main's server_categories
    pc,                         \* where the run is
    fmt_name,                   \* the key of FORMATS the run uses
    rows_read,                  \* the rows the reader has yielded so far
    transactions,               \* parse_csv's transactions
    uncategorized_descriptions, \* parse_csv's uncategorized_descriptions
    batch,                      \* the batched prompt: "none", "ok" or "failed"
    pending,                    \* descriptions the one-at-a-time loop has yet to do
    results,                    \* categorize_with_afm's results
    prompts,                    \* per description, the prompts sent that name it
    failed,                     \* descriptions whose own prompt failed
    report,                     \* what parse_csv returned
    csv_rows,                   \* the rows generate_csv_for_import wrote
    call,                       \* the arguments of a function called on its own
    ret                         \* what that call returned

vars == << headers, format_name, rules, default_category, use_llm, exclude_transfers,
           server_categories, pc, fmt_name, rows_read, transactions,
           uncategorized_descriptions, batch, pending, results, prompts, failed,
           report, csv_rows, call, ret >>

config == << headers, format_name, rules, default_category, use_llm, exclude_transfers,
             server_categories >>

afm == << batch, pending, results, prompts, failed >>

unit == << call, ret >>

\* no function is called on its own during a run of the program
NoCall == [ fn |-> "" ]

NoRet == [ returned |-> FALSE ]

\* The module's VALID_CATEGORIES during the run: main replaces it when the fetch
\* brought categories back.
ValidCategoriesNow ==
    IF server_categories # <<>> THEN server_categories \o <<Uncategorized>> ELSE VALID_CATEGORIES

\* cats_for_llm
CatsForLlm == IF server_categories # <<>> THEN server_categories ELSE ValidCategoriesNow

NoReport == [ made |-> FALSE ]

Init ==
    /\ \E file \in FileChoices : headers = file[1] /\ format_name = file[2]
    /\ rules \in RuleChoices
    /\ default_category \in DefaultChoices
    /\ use_llm \in BOOLEAN
    /\ exclude_transfers \in BOOLEAN
    /\ server_categories \in ServerChoices
    /\ pc = "start"
    /\ fmt_name = ""
    /\ rows_read = <<>>
    /\ transactions = <<>>
    /\ uncategorized_descriptions = {}
    /\ batch = "none"
    /\ pending = {}
    /\ results = <<>>
    /\ prompts = <<>>
    /\ failed = {}
    /\ report = NoReport
    /\ csv_rows = <<>>
    /\ call = NoCall
    /\ ret = NoRet

\* ---------------------------------------------------- format selection --
\* parse_csv, the choice of fmt: "" when the run ends in sys.exit(1)
SelectedFormat ==
    IF format_name # ""
    THEN (IF format_name \in DOMAIN FORMATS THEN format_name ELSE "")
    ELSE detect_format(headers)

SelectFormat ==
    /\ pc = "start"
    /\ fmt_name' = SelectedFormat
    /\ pc' = IF SelectedFormat = "" THEN "exit" ELSE "rows"
    /\ UNCHANGED << config, unit, rows_read, transactions, uncategorized_descriptions, afm,
                    report, csv_rows >>

\* ------------------------------------------------------ row normalizer --
fmt == FORMATS[fmt_name]

has_debit_credit == "debit_col" \in DOMAIN fmt

has_category_col == "category_col" \in DOMAIN fmt

\* csv.DictReader: the position of a column in the header, 0 when it has none
Position(col) == IndexIn(headers, col)

\* A column the header has and the row is too short for: DictReader gives it None.
IsNone(row, col) == Position(col) > 0 /\ Position(col) > Len(row)

\* row.get(col, default) when it is not None
Get(row, col, default) == IF Position(col) = 0 THEN default ELSE row[Position(col)]

\* amount text with the currency symbol and the thousands separators removed
Clean(s) == replace(replace(s, "$"), ",")

\* Get category - use existing if available, otherwise use rules
RowCategory(row, description) ==
    IF has_category_col
    THEN LET existing_cat == strip(Get(row, fmt.category_col, ""))
             subcategory  == strip(Get(row, fmt.subcategory_col, ""))
             category     == map_external_category(existing_cat, subcategory, ValidCategoriesNow)
         IN  IF category = default_category
             THEN categorize(description, rules, default_category)
             ELSE category
    ELSE categorize(description, rules, default_category)

\* SignedIsExpense, were a zero amount counted as an expense
SignedIsExpense_m(amount) == amount >= 0

\* is_expense of a row with a single signed amount
SignedIsExpense(amount) == amount > 0

\* the amount a transaction stores
StoredAmount(amount) == Abs(amount)

\* The body of the loop over the reader for one row.  kind is "tx" (a transaction is
\* appended), "skip" (ValueError: warning, next row), "drop" (no amount: next row)
\* or "crash" (.strip() of None: an AttributeError no handler catches).
Normalize(row) ==
    LET amount_cols == IF has_debit_credit THEN {fmt.debit_col, fmt.credit_col}
                       ELSE {fmt.amount_col}
        debit_str   == strip(Get(row, fmt.debit_col, ""))
        credit_str  == strip(Get(row, fmt.credit_col, ""))
        amount_str  == IF has_debit_credit
                       THEN (IF debit_str # "" THEN debit_str ELSE credit_str)
                       ELSE strip(Get(row, fmt.amount_col, "0"))
        parsed      == float(Clean(amount_str))
        is_expense  == IF has_debit_credit THEN debit_str # "" ELSE SignedIsExpense(parsed.value)
        other_cols  == {fmt.date_col, fmt.description_col}
                       \cup (IF has_category_col THEN {fmt.category_col, fmt.subcategory_col} ELSE {})
        description == strip(Get(row, fmt.description_col, ""))
        none        == [ kind |-> "crash" ]
    IN  IF \E c \in amount_cols : IsNone(row, c) THEN none
        ELSE IF has_debit_credit /\ debit_str = "" /\ credit_str = "" THEN [ kind |-> "drop" ]
        ELSE IF ~parsed.ok THEN [ kind |-> "skip" ]
        ELSE IF \E c \in other_cols : IsNone(row, c) THEN none
        ELSE [ kind |-> "tx",
               tx   |-> [ date        |-> parse_date(Get(row, fmt.date_col, ""), fmt.date_format),
                          amount      |-> StoredAmount(parsed.value),
                          category    |-> RowCategory(row, description),
                          is_expense  |-> is_expense,
                          _description |-> description,
                          line        |-> Len(rows_read) + 1 ] ]

ReadRow ==
    /\ pc = "rows"
    /\ Len(rows_read) < MaxRows
    /\ \E row \in RowChoices(headers) :
         LET n == Normalize(row)
         IN  /\ rows_read' = Append(rows_read, row)
             /\ pc' = IF n.kind = "crash" THEN "crashed" ELSE "rows"
             /\ transactions' = IF n.kind = "tx" THEN Append(transactions, n.tx) ELSE transactions
             /\ uncategorized_descriptions' =
                    IF n.kind = "tx" /\ n.tx.category = default_category
                    THEN uncategorized_descriptions \cup {n.tx._description}
                    ELSE uncategorized_descriptions
    /\ UNCHANGED << config, unit, fmt_name, afm, report, csv_rows >>

\* ---------------------------------------------------------- aggregator --
EmptyMap == [ d \in {} |-> "" ]

\* Applied, were the category of a transaction not looked at
Applied_m(txs, llm_categories) ==
    [ i \in 1..Len(txs) |->
        IF txs[i]._description \in DOMAIN llm_categories
        THEN [ txs[i] EXCEPT !.category = llm_categories[txs[i]._description] ]
        ELSE txs[i] ]

\* Apply LLM categories
Applied(txs, llm_categories) ==
    [ i \in 1..Len(txs) |->
        IF txs[i].category = default_category /\ txs[i]._description \in DOMAIN llm_categories
        THEN [ txs[i] EXCEPT !.category = llm_categories[txs[i]._description] ]
        ELSE txs[i] ]

\* Excluded, were only "Transfer" skipped
Excluded_m(tx) == exclude_transfers /\ tx.category = "Transfer"

\* Skip transfers if requested
Excluded(tx) == exclude_transfers /\ tx.category \in {"Transfer", "Income"}

Kept(txs) == SelectSeq(txs, LAMBDA tx : ~Excluded(tx))

\* Build anonymized transaction
Anonymized(tx) == [ date |-> tx.date, amount |-> tx.amount, category |-> tx.category ]

AnonymizedAll(txs) == [ i \in 1..Len(txs) |-> Anonymized(txs[i]) ]

Expenses(txs) == AnonymizedAll(SelectSeq(Kept(txs), LAMBDA tx : tx.is_expense))

Income(txs) == AnonymizedAll(SelectSeq(Kept(txs), LAMBDA tx : ~tx.is_expense))

RECURSIVE SumAmounts(_)
\* round(sum(...), 2): amounts are whole hundredths, so the rounded sum is their sum
SumAmounts(list) == IF list = <<>> THEN 0 ELSE Head(list).amount + SumAmounts(Tail(list))

\* category_counts, were a transaction counted before the transfers are skipped
CategoryCounts_m(txs) ==
    [ c \in { txs[i].category : i \in 1..Len(txs) } |->
        Cardinality({ i \in 1..Len(txs) : txs[i].category = c }) ]

\* category_counts
CategoryCounts(txs) ==
    LET kept == Kept(txs)
    IN  [ c \in { kept[i].category : i \in 1..Len(kept) } |->
            Cardinality({ i \in 1..Len(kept) : kept[i].category = c }) ]

\* only first word, for privacy
Hint(tx) == IF tx._description # "" THEN FirstToken(tx._description) ELSE "Unknown"

\* Get remaining uncategorized hints
AllHints(txs) == { Hint(txs[i]) : i \in { j \in 1..Len(txs) : txs[j].category = default_category } }

\* the length list(uncategorized_hints)[:20] is cut to
HintCap == 20

\* list(uncategorized_hints)[:20]: any HintCap of them, all when there are fewer
CappedHints(txs) ==
    { h \in SUBSET AllHints(txs) : Cardinality(h) = Min(HintCap, Cardinality(AllHints(txs))) }

\* the dictionary parse_csv returns, with one of the possible hint lists
Report(txs, hints) ==
    [ made     |-> TRUE,
      expenses |-> Expenses(txs),
      income   |-> Income(txs),
      summary  |-> [ total_expenses |-> Len(Expenses(txs)),
                     total_income   |-> Len(Income(txs)),
                     expense_total  |-> SumAmounts(Expenses(txs)),
                     income_total   |-> SumAmounts(Income(txs)),
                     by_category    |-> CategoryCounts(txs) ],
      uncategorized_hints |-> hints ]

\* parse_csv from "Apply LLM categories" to its return, llm_categories being what
\* categorize_with_afm returned ({} when it was not called)
Finish(llm_categories) ==
    /\ transactions' = Applied(transactions, llm_categories)
    /\ \E hints \in CappedHints(transactions') : report' = Report(transactions', hints)
    /\ pc' = "done"

\* the reader is exhausted
EndOfFile ==
    /\ pc = "rows"
    /\ IF use_llm /\ uncategorized_descriptions # {}
       THEN /\ pc' = "afm_which"
            /\ UNCHANGED << transactions, report >>
       ELSE Finish(EmptyMap)
    /\ UNCHANGED << config, unit, fmt_name, rows_read, uncategorized_descriptions, afm, csv_rows >>

\* ---------------------------------------------------- categorize_with_afm
NoPrompts == [ batched |-> 0, single |-> 0 ]

\* where categorize_with_afm goes once afm is found
AfterWhich == IF Cardinality(uncategorized_descriptions) > 1 THEN "afm_batch" ELSE "afm_each"

\* Check if afm is available
AfmWhich ==
    /\ pc = "afm_which"
    /\ \/ /\ pc' = AfterWhich
          /\ pending' = uncategorized_descriptions
          /\ prompts' = [ d \in uncategorized_descriptions |-> NoPrompts ]
          /\ UNCHANGED << transactions, report >>
       \/ /\ Finish(EmptyMap)
          /\ UNCHANGED << pending, prompts >>
    /\ UNCHANGED << config, unit, fmt_name, rows_read, uncategorized_descriptions, batch, results,
                    failed, csv_rows >>

\* Remove any numbering prefix like "1. " or "1: "
NumberingChars == {"0", "1", "2", "3", "4", "5", "6", "7", "8", "9", ".", "-", ")", ":", " "}

\* Clean up the response line
CleanLine(line) ==
    LET category == strip(line)
    IN  IF category # "" /\ isdigit(Head(category))
        THEN strip(lstrip(category, NumberingChars))
        ELSE category

\* results after the batched prompt answered: the descriptions zip() pairs with a
\* line, each with the category its line matches
BatchResults(answered, line) ==
    [ d \in answered |-> match_category(CleanLine(line[d]), CatsForLlm) ]

\* AfterBatchOk, were the return after the batch loop missing
AfterBatchOk_m == "fall through"

\* where categorize_with_afm goes after a batched prompt that exited 0
AfterBatchOk == "return"

\* Batch all descriptions into a single prompt
AfmBatch ==
    /\ pc = "afm_batch"
    /\ prompts' = [ d \in DOMAIN prompts |-> [ prompts[d] EXCEPT !.batched = @ + 1 ] ]
    /\ \/ \E answered \in SUBSET uncategorized_descriptions \ {{}} :
            \E line \in [ answered -> Responses ] :
               /\ batch' = "ok"
               /\ results' = BatchResults(answered, line)
               /\ IF AfterBatchOk = "return"
                  THEN Finish(results')
                  ELSE pc' = "afm_each" /\ UNCHANGED << transactions, report >>
       \/ /\ batch' = "failed"
          /\ pc' = "afm_each"
          /\ UNCHANGED << results, transactions, report >>
    /\ UNCHANGED << config, unit, fmt_name, rows_read, uncategorized_descriptions, pending, failed,
                    csv_rows >>

\* EachFailed, were a failed prompt to record nothing
EachFailed_m(res, desc) == res

\* results after the prompt for desc failed (non-zero exit, timeout, exception)
EachFailed(res, desc) == (desc :> Uncategorized) @@ res

\* results after the prompt for desc answered
EachAnswered(res, desc, stdout) == (desc :> match_category(strip(stdout), CatsForLlm)) @@ res

\* the descriptions left to the loop after desc
Remaining(left, desc) == left \ {desc}

\* Fallback: process one at a time
AfmEach ==
    /\ pc = "afm_each"
    /\ \E desc \in pending :
         /\ pending' = Remaining(pending, desc)
         /\ prompts' = [ prompts EXCEPT ![desc].single = @ + 1 ]
         /\ \/ \E stdout \in Responses :
                 /\ results' = EachAnswered(results, desc, stdout)
                 /\ UNCHANGED failed
            \/ /\ results' = EachFailed(results, desc)
               /\ failed' = failed \cup {desc}
         /\ IF pending' = {}
            THEN Finish(results')
            ELSE UNCHANGED << pc, transactions, report >>
    /\ UNCHANGED << config, unit, fmt_name, rows_read, uncategorized_descriptions, batch, csv_rows >>

\* ---------------------------------------------------------- CSV output --
\* Generate CSV file compatible with expense_import tool: the header and one line
\* per expense, every cell as csv.writer prints it
CsvLines(expenses) ==
    << <<"date", "amount", "category">> >>
    \o [ i \in 1..Len(expenses) |->
           << expenses[i].date, repr(expenses[i].amount), expenses[i].category >> ]

\* main: --csv with --output, and there are expenses
generate_csv_for_import ==
    /\ pc = "done"
    /\ report.expenses # <<>>
    /\ csv_rows' = CsvLines(report.expenses)
    /\ pc' = "csv"
    /\ UNCHANGED << config, unit, fmt_name, rows_read, transactions, uncategorized_descriptions,
                    afm, report >>

Next ==
    \/ SelectFormat
    \/ ReadRow
    \/ EndOfFile
    \/ AfmWhich
    \/ AfmBatch
    \/ AfmEach
    \/ generate_csv_for_import

Spec == Init /\ [][Next]_vars

\* =========================================================== properties ==
\* parse_csv has returned its report
Returned == pc \in {"done", "csv"}

\* the row a transaction was read from
RowOf(tx) == rows_read[tx.line]

Range(seq) == { seq[i] : i \in 1..Len(seq) }

\* the merchant descriptions the run read
InputDescriptions == { tx._description : tx \in Range(transactions) } \ {""}

\* every value of the JSON report, as json.dumps prints it
EntryValues(list) ==
    UNION { { e.date, repr(e.amount), e.category } : e \in Range(list) }

ReportValues ==
    EntryValues(report.expenses) \cup EntryValues(report.income)
    \cup { ToStr(report.summary.total_expenses), ToStr(report.summary.total_income),
           repr(report.summary.expense_total), repr(report.summary.income_total) }
    \cup DOMAIN report.summary.by_category
    \cup { ToStr(report.summary.by_category[c]) : c \in DOMAIN report.summary.by_category }
    \cup report.uncategorized_hints

\* every cell of the CSV for import
CsvCells == UNION { Range(csv_rows[i]) : i \in 1..Len(csv_rows) }

\* C1: privacy invariant.  Once the report is returned, no value of the report
\* (expenses, income, summary, uncategorized_hints) and no cell of the CSV contains
\* an input description as a substring, the hints included.
C1_PrivacyInvariant ==
    Returned =>
        \A d \in InputDescriptions :
            \A v \in ReportValues \cup CsvCells : ~Contains(v, d)

\* the category vocabulary of the run
Vocabulary == Range(ValidCategoriesNow)

\* C2: every transaction of a finished run has amount >= 0 and a final category
\* that is in the run's vocabulary or is "Uncategorized", whatever the rules and
\* the default category are.
C2_AmountAndCategory ==
    Returned =>
        \A tx \in Range(transactions) :
            tx.amount >= 0 /\ tx.category \in Vocabulary \cup {Uncategorized}

Reserved == {"Transfer", "Income"}

IsReserved(e) == e.category \in Reserved

\* C3: with exclude_transfers no entry of expenses or income has category
\* "Transfer" or "Income"; without it every transaction of those categories is in
\* expenses when its expense flag is set and in income otherwise.
C3_ExcludeTransfers ==
    Returned =>
        IF exclude_transfers
        THEN \A e \in Range(report.expenses) \cup Range(report.income) : ~IsReserved(e)
        ELSE /\ SelectSeq(report.expenses, IsReserved)
                  = AnonymizedAll(SelectSeq(transactions, LAMBDA tx : IsReserved(tx) /\ tx.is_expense))
             /\ SelectSeq(report.income, IsReserved)
                  = AnonymizedAll(SelectSeq(transactions, LAMBDA tx : IsReserved(tx) /\ ~tx.is_expense))

\* a run that excluded a reserved transaction the classifier resolved and kept another
C3_Witness ==
    /\ Returned /\ exclude_transfers
    /\ \E tx \in Range(transactions) :
         /\ IsReserved(tx)
         /\ tx._description \in DOMAIN results
         /\ results[tx._description] = tx.category
    /\ Len(report.expenses) + Len(report.income) > 0

\* the category a transaction had when its row was read, before the classifier
PreCategory(tx) == Normalize(RowOf(tx)).tx.category

\* the transactions the rules and the remap left at the default category
Unresolved == { tx \in Range(transactions) : PreCategory(tx) = default_category }

\* the prompts that named a description
PromptsFor(d) == prompts[d].batched + prompts[d].single

\* the transactions the classifier resolves for one description end alike
SameResolvedCategory ==
    Returned =>
        \A t1, t2 \in Unresolved : t1._description = t2._description => t1.category = t2.category

C5_FallbackState ==
    batch = "failed" =>
        /\ pc \in {"afm_each", "done", "csv"}
        /\ failed \subseteq DOMAIN results
        /\ pending \cup DOMAIN results = uncategorized_descriptions
        /\ \A d \in DOMAIN results : prompts[d].single = 1
        /\ \A d \in failed : results[d] = Uncategorized
        /\ Returned => DOMAIN results = uncategorized_descriptions

\* the step part of C5: a failing prompt leaves the entries of the others alone
C5_FallbackStep ==
    batch = "failed" /\ failed' # failed
        => \A d \in DOMAIN results : d \in DOMAIN results' /\ results'[d] = results[d]

\* C5: after a failed batched prompt every submitted description gets its own
\* prompt; a prompt that times out, exits non-zero or raises gives "Uncategorized"
\* to its description only, the others are still attempted, the returned map has an
\* entry for every submitted description, and the run is not aborted.
C5_BatchFallback == []C5_FallbackState /\ [][C5_FallbackStep]_vars

\* a fallback in which one prompt failed and another resolved its description
C5_Witness ==
    /\ Returned /\ batch = "failed"
    /\ failed # {}
    /\ \E d \in DOMAIN results \ failed : results[d] # Uncategorized

\* a column of the active format with no value in the row: not in the header, or
\* the row is too short for it
Absent(row, col) == Position(col) = 0 \/ Position(col) > Len(row)

\* the text of a cell, "" when the row has none
Text(row, col) == IF Absent(row, col) THEN "" ELSE strip(row[Position(col)])

\* the (category, subcategory) pair a row carries
SourcePair(row) == << Text(row, fmt.category_col), Text(row, fmt.subcategory_col) >>

\* C8: in a format with a source category column, a transaction whose row carries a
\* (category, subcategory) pair of the static mapping table has the table's value
\* as its category (rule matching is not applied), for every rules configuration and
\* every default_category.
C8_RemapBypassesRules ==
    fmt_name # "" /\ has_category_col =>
        \A tx \in Range(transactions) :
            SourcePair(RowOf(tx)) \in DOMAIN CATEGORY_MAPPING
                => tx.category = CATEGORY_MAPPING[SourcePair(RowOf(tx))]

\* the columns a row of the active format must have
RequiredColumns ==
    {fmt.date_col, fmt.description_col}
    \cup (IF has_debit_credit THEN {fmt.debit_col, fmt.credit_col} ELSE {fmt.amount_col})

\* the amount text the row normalizer parses
AmountText(row) ==
    IF has_debit_credit
    THEN (IF Text(row, fmt.debit_col) # "" THEN Text(row, fmt.debit_col) ELSE Text(row, fmt.credit_col))
    ELSE Text(row, fmt.amount_col)

\* a row whose amount does not parse or that lacks a required column
BadRow(row) ==
    \/ \E c \in RequiredColumns : Absent(row, c)
    \/ AmountText(row) # "" /\ ~float(Clean(AmountText(row))).ok

\* C9: a row whose amount fails to parse, or that lacks the amount, date or
\* description column of the active format, produces no transaction, the other
\* rows are still processed, and no single row aborts the run.
C9_BadRowTolerance ==
    /\ pc # "crashed"
    /\ fmt_name # "" =>
         \A i \in 1..Len(rows_read) :
            BadRow(rows_read[i]) => \A tx \in Range(transactions) : tx.line # i

\* the signed value of the amount text of a row
AmountValue(row) == float(Clean(AmountText(row))).value

\* C10: in a debit/credit format a transaction from a row with a debit is an
\* expense, one from a row with no debit and a credit is income, and a row with
\* neither yields no transaction; in a signed-amount format a transaction is an
\* expense when the amount is > 0 and income when it is <= 0; the stored amount is
\* the absolute value.
C10_ExpenseFlag ==
    fmt_name # "" =>
        /\ \A tx \in Range(transactions) :
             LET row == RowOf(tx)
                 v   == IF AmountText(row) = "" THEN 0 ELSE AmountValue(row)
             IN  /\ tx.amount >= 0 /\ tx.amount \in {v, -v}
                 /\ IF has_debit_credit
                    THEN tx.is_expense <=> Text(row, fmt.debit_col) # ""
                    ELSE tx.is_expense <=> v > 0
        /\ has_debit_credit =>
             \A i \in 1..Len(rows_read) :
                Text(rows_read[i], fmt.debit_col) = "" /\ Text(rows_read[i], fmt.credit_col) = ""
                    => \A tx \in Range(transactions) : tx.line # i

\* a debit/credit file gave an income entry (credit only) and dropped a row with
\* neither a debit nor a credit
C10_Witness ==
    /\ fmt_name = "pocketbook"
    /\ \E tx \in Range(transactions) :
         /\ ~tx.is_expense
         /\ Text(RowOf(tx), "Debit") = "" /\ Text(RowOf(tx), "Credit") = "100.00"
         /\ tx.amount = 10000
    /\ \E i \in 1..Len(rows_read) :
         /\ Text(rows_read[i], "Debit") = "" /\ Text(rows_read[i], "Credit") = ""
         /\ \A tx \in Range(transactions) : tx.line # i

\* ------------------------------------------------- functions on their own
\* Rules in a list given to categorize on its own.
MaxRules == 2

\* the pipeline at rest while a function is called on its own
NoRun ==
    /\ headers = <<>>
    /\ format_name = ""
    /\ rules = <<>>
    /\ default_category = Uncategorized
    /\ use_llm = FALSE
    /\ exclude_transfers = FALSE
    /\ server_categories = <<>>
    /\ pc = "idle"
    /\ fmt_name = ""
    /\ rows_read = <<>>
    /\ transactions = <<>>
    /\ uncategorized_descriptions = {}
    /\ batch = "none"
    /\ pending = {}
    /\ results = <<>>
    /\ prompts = <<>>
    /\ failed = {}
    /\ report = NoReport
    /\ csv_rows = <<>>

run == << config, pc, fmt_name, rows_read, transactions, uncategorized_descriptions, afm,
          report, csv_rows >>

\* classifier output given to match_category
MatchResponses ==
    { "", " ", "Coffee", " Coffee ", "coffee", "HEALTH", "health ", " heal", "Dining",
      "I'm not sure", "2. Coffee", "Transfer to Income", "out", "xyz " }

\* vocabularies given to match_category
MatchVocabularies ==
    { VALID_CATEGORIES,
      <<"Food", "Coffee", "Transfer">>,
      <<"coffee shop", "COFFEE", "Coffee">>,
      <<"Dining Out", "Out", "Health">>,
      <<>> }

InitMatch ==
    /\ NoRun
    /\ \E r \in MatchResponses, v \in MatchVocabularies :
         call = [ fn |-> "match_category", response |-> r, valid_categories |-> v ]
    /\ ret = NoRet

CallMatch ==
    /\ call.fn = "match_category"
    /\ ~ret.returned
    /\ ret' = [ returned |-> TRUE, value |-> match_category(call.response, call.valid_categories) ]
    /\ UNCHANGED << run, call >>

SpecMatch == InitMatch /\ [][CallMatch]_vars

\* descriptions given to categorize
CategorizeDescriptions == { "WOOLWORTHS METRO", "Woolworths", "metro cafe", "ACME PTY", "" }

\* the rules the lists given to categorize are made of
RulePool ==
    { [pattern |-> "woolworth", category |-> "Groceries"],
      [pattern |-> "METRO", category |-> "Transport"],
      [pattern |-> "Metro", category |-> "Coffee"],
      [pattern |-> "", category |-> "Misc"] }

RuleLists == UNION { [ 1..n -> RulePool ] : n \in 0..MaxRules }

InitCategorize ==
    /\ NoRun
    /\ \E d \in CategorizeDescriptions, l \in RuleLists, c \in DefaultChoices :
         call = [ fn |-> "categorize", description |-> d, rules |-> l, default |-> c ]
    /\ ret = NoRet

CallCategorize ==
    /\ call.fn = "categorize"
    /\ ~ret.returned
    /\ ret' = [ returned |-> TRUE, value |-> categorize(call.description, call.rules, call.default) ]
    /\ UNCHANGED << run, call >>

SpecCategorize == InitCategorize /\ [][CallCategorize]_vars

\* the least index up to n that has the property
First(P(_), n) == CHOOSE i \in 1..n : P(i) /\ \A j \in 1..(i - 1) : ~P(j)

\* The matching order of C6 applied to the text r: r itself when it is an entry,
\* else the first entry equal to it in any case, else the first entry that contains
\* it or is contained in it in any case, else the sentinel.
MatchOrder(r, v) ==
    LET Same(i)    == lower(v[i]) = lower(r)
        Partial(i) == Contains(lower(v[i]), lower(r)) \/ Contains(lower(r), lower(v[i]))
    IN  IF \E i \in 1..Len(v) : v[i] = r THEN r
        ELSE IF \E i \in 1..Len(v) : Same(i) THEN v[First(Same, Len(v))]
        ELSE IF \E i \in 1..Len(v) : Partial(i) THEN v[First(Partial, Len(v))]
        ELSE Uncategorized

MatchReturned == call.fn = "match_category" /\ ret.returned

\* C6 as stated: match_category returns what the matching order gives for the
\* response as passed, the empty and the whitespace-only responses included.
C6_MatchAsStated ==
    MatchReturned => ret.value = MatchOrder(call.response, call.valid_categories)

\* C6 amended: match_category returns what the matching order gives for the
\* response with its leading and trailing whitespace stripped.
C6_MatchStripped ==
    MatchReturned => ret.value = MatchOrder(strip(call.response), call.valid_categories)

\* a response whose surrounding whitespace changes what the matching order gives
C6_Witness ==
    /\ MatchReturned
    /\ call.response # strip(call.response)
    /\ ret.value # Uncategorized
    /\ MatchOrder(call.response, call.valid_categories)
         # MatchOrder(strip(call.response), call.valid_categories)

CategorizeReturned == call.fn = "categorize" /\ ret.returned

\* rule i of the call's list has its pattern in the description, in any case
RuleHits(i) == Contains(lower(call.description), lower(call.rules[i].pattern))

\* C7: categorize returns the category of the first rule, in declaration order,
\* whose pattern the description contains case-insensitively, however many later
\* rules match, and the default category when no rule matches.
C7_FirstRuleWins ==
    CategorizeReturned =>
        ret.value = IF \E i \in 1..Len(call.rules) : RuleHits(i)
                    THEN call.rules[First(RuleHits, Len(call.rules))].category
                    ELSE call.default

\* two rules of different categories both match and the first one decided
C7_Witness ==
    /\ CategorizeReturned
    /\ Len(call.rules) = 2
    /\ RuleHits(1) /\ RuleHits(2)
    /\ call.rules[1].category # call.rules[2].category
    /\ ret.value = call.rules[1].category

\* ------------------------------------------------- format selection alone --
\* the longest header a file is given
MaxHeaders == 4

\* the column names the headers are made of, as files write them
HeaderPool == { "CARD MEMBER", "Transaction Date", "debit", "Date", "AMOUNT", "Description" }

HeaderLists == UNION { [ 1..n -> HeaderPool ] : n \in 0..MaxHeaders }

\* --format: "" is none given, "visa" a name FORMATS does not have
FormatChoices == { "", "amex", "commbank", "visa" }

\* parse_csv entered with one file and one --format, everything else at its default
InitFormat ==
    /\ headers \in HeaderLists
    /\ format_name \in FormatChoices
    /\ rules = <<>>
    /\ default_category = Uncategorized
    /\ use_llm = FALSE
    /\ exclude_transfers = FALSE
    /\ server_categories = <<>>
    /\ pc = "start"
    /\ fmt_name = ""
    /\ rows_read = <<>>
    /\ transactions = <<>>
    /\ uncategorized_descriptions = {}
    /\ batch = "none"
    /\ pending = {}
    /\ results = <<>>
    /\ prompts = <<>>
    /\ failed = {}
    /\ report = NoReport
    /\ csv_rows = <<>>
    /\ call = NoCall
    /\ ret = NoRet

\* parse_csv up to the choice of fmt
SpecFormat == InitFormat /\ [][SelectFormat]_vars

\* the header has this column, whatever the case it is written in
HasColumn(name) == \E i \in 1..Len(headers) : upper(headers[i]) = upper(name)

\* the first rule of the chain the header satisfies; "" when it satisfies none
ChainFormat ==
    IF HasColumn("card member") THEN "amex"
    ELSE IF HasColumn("transaction date") /\ HasColumn("debit") THEN "pocketbook"
    ELSE IF HasColumn("date") /\ HasColumn("amount") THEN "commbank"
    ELSE ""

\* how many rules of the chain the header satisfies
RulesMatching ==
    Cardinality({ r \in {"amex", "pocketbook", "commbank"} :
        \/ r = "amex" /\ HasColumn("card member")
        \/ r = "pocketbook" /\ HasColumn("transaction date") /\ HasColumn("debit")
        \/ r = "commbank" /\ HasColumn("date") /\ HasColumn("amount") })

\* C11: once the format is chosen, without --format it is the first rule of the
\* chain (cardholder column, then transaction date and debit, then date and amount)
\* that the header satisfies, compared without regard to case, and when the header
\* satisfies none the run has exited with no report; with a --format that FORMATS
\* has, that format is used whatever the header says and the run goes on.
C11_FormatSelection ==
    pc # "start" =>
        /\ format_name = "" =>
              /\ fmt_name = ChainFormat
              /\ (ChainFormat = "" => pc = "exit" /\ report = NoReport)
              /\ (ChainFormat # "" => pc # "exit")
        /\ format_name \in DOMAIN FORMATS =>
              /\ fmt_name = format_name
              /\ pc # "exit"

\* a header that satisfies two rules, in another case than the rules are written
\* in, got the earlier one
C11_Witness ==
    /\ pc = "rows"
    /\ format_name = ""
    /\ RulesMatching >= 2
    /\ fmt_name = "pocketbook"
    /\ \A i \in 1..Len(headers) : headers[i] # "transaction date" /\ headers[i] # "date"

\* ------------------------------------------------------------ conservation --
\* the positions of the transactions the report leaves out
ExcludedAt ==
    { i \in 1..Len(transactions) :
        exclude_transfers /\ transactions[i].category \in {"Transfer", "Income"} }

\* how many entries of a list are this entry
Occurrences(list, e) == Cardinality({ i \in 1..Len(list) : list[i] = e })

\* how many transactions that are not left out and have this expense flag give
\* this entry
Sources(e, flag) ==
    Cardinality({ i \in (1..Len(transactions)) \ ExcludedAt :
        /\ transactions[i].is_expense = flag
        /\ e = [ date     |-> transactions[i].date,
                 amount   |-> transactions[i].amount,
                 category |-> transactions[i].category ] })

\* the sum of the counts of by_category
CountTotal(counts) == Cardinality({ ck \in (DOMAIN counts) \X (1..MaxRows) : ck[2] <= counts[ck[1]] })

\* C12: in the report, every transaction that is not excluded (exclusion enabled
\* and category Transfer or Income) is one entry of expenses when its expense flag
\* is set and one entry of income otherwise, an excluded one is in neither, and the
\* counts of by_category add up to total_expenses + total_income, which is the
\* number of transactions minus the number excluded.
C12_Conservation ==
    Returned =>
        /\ \A i \in 1..Len(transactions) :
             LET e == [ date     |-> transactions[i].date,
                        amount   |-> transactions[i].amount,
                        category |-> transactions[i].category ]
             IN  /\ Occurrences(report.expenses, e) = Sources(e, TRUE)
                 /\ Occurrences(report.income, e) = Sources(e, FALSE)
        /\ Len(report.expenses) + Len(report.income) = Len(transactions) - Cardinality(ExcludedAt)
        /\ report.summary.total_expenses = Len(report.expenses)
        /\ report.summary.total_income = Len(report.income)
        /\ \A c \in DOMAIN report.summary.by_category : report.summary.by_category[c] <= MaxRows
        /\ CountTotal(report.summary.by_category)
             = report.summary.total_expenses + report.summary.total_income
        /\ report.summary.total_expenses + report.summary.total_income
             = Len(transactions) - Cardinality(ExcludedAt)

\* a report of two transactions, one excluded and the other counted
C12_Witness ==
    /\ Returned
    /\ Len(transactions) = 2
    /\ Cardinality(ExcludedAt) = 1
    /\ CountTotal(report.summary.by_category) = 1

\* ------------------------------------------------- frame of the classifier --
\* how many prompts have named a description in this state
Sent(p, d) == IF d \in DOMAIN p THEN p[d].batched + p[d].single ELSE 0

\* the descriptions a step submits to the classifier
SubmittedNow == { d \in DOMAIN prompts' : Sent(prompts', d) > Sent(prompts, d) }

\* the descriptions of the transactions that are at the default category
AtDefault == { transactions[i]._description :
                 i \in { j \in 1..Len(transactions) : transactions[j].category = default_category } }

\* the run is inside categorize_with_afm
InClassifier == pc \in {"afm_which", "afm_batch", "afm_each"}

\* one step of the run, as C13 has it
C13_Step ==
    /\ InClassifier' => use_llm /\ AtDefault # {}
    /\ SubmittedNow # {} => use_llm /\ InClassifier
    /\ SubmittedNow \subseteq AtDefault
    /\ Len(transactions') >= Len(transactions)
    /\ \A i \in 1..Len(transactions) :
         /\ transactions'[i].date = transactions[i].date
         /\ transactions'[i].amount = transactions[i].amount
         /\ transactions'[i].is_expense = transactions[i].is_expense
         /\ transactions[i].category # default_category
              => transactions'[i].category = transactions[i].category

====
